---- MODULE Spec2Model ----
(***************************************************************************)
(* envconsul's command line entry point (cli.go): CLI.Run, from flag       *)
(* parsing to its event loop over the runner's channels, the OS signals    *)
(* and the CLI's own stop channel, and CLI.stop, called from any number of *)
(* goroutines.  The Runner itself (NewRunner, Start, Stop, Signal and the  *)
(* goroutine that feeds ErrCh, DoneCh and ExitCh) lives in another file:   *)
(* here it is the log of the calls Run makes to it and an environment      *)
(* that may offer a value on each of its channels.                         *)
(***************************************************************************)
EXTENDS Integers, Sequences, FiniteSets

(* ----------------------------- bounds ---------------------------------- *)

\* child exit codes range over 0..MaxExitCode
MaxExitCode == 16
\* OS signals delivered to the process during one Run
MaxSignals == 2
\* goroutines that call CLI.stop()
NumStoppers == 2
\* -prefix flags on the command line
MaxPrefixFlags == 1
\* positional arguments on the command line
MaxArgs == 2

(* ----------------------------- exit codes ------------------------------ *)
\* const ( ExitCodeOK int = 0; ExitCodeError = 10 + iota; ... ): iota is the
\* index of the constant's line in the block, and ExitCodeOK holds index 0.

ExitCodeOK == 0
ExitCodeError == 10 + 1
ExitCodeInterrupt == 10 + 2
ExitCodeLoggingError == 10 + 3
ExitCodeParseFlagsError == 10 + 4
ExitCodeParseConfigError == 10 + 5
ExitCodeRunnerError == 10 + 6
ExitCodeConsulAPIError == 10 + 7
ExitCodeWatcherError == 10 + 8

(* ----------------------------- values ---------------------------------- *)

ExitCodes == 0..MaxExitCode
\* "no value is waiting on ExitCh"
NoCode == -1
\* the signals handed to signal.Notify, and "signalCh is empty"
Signals == {"SIGHUP", "SIGINT", "SIGTERM", "SIGQUIT"}
NoSignal == "none"
Stoppers == 1..NumStoppers
\* the mutex is free
NoOwner == 0

\* a call Run makes on the runner
Call(op, arg) == [op |-> op, arg |-> arg]
StartCall == Call("Start", "-")
StopCall == Call("Stop", "-")
SignalCall(sig) == Call("Signal", sig)

Range(q) == {q[i] : i \in 1..Len(q)}

\* positional arguments are told apart by their position: <<1, 2, ..., n>>
ArgList(n) == [i \in 1..n |-> i]
\* -prefix flags, already parsed by prefixVar
FlagPrefixes(n) == [i \in 1..n |-> [flag |-> i, raw |-> 0]]
\* dep.ParseStoreKeyPrefix of a positional argument that parses
ParseStoreKeyPrefix(raw) == [flag |-> 0, raw |-> raw]

VARIABLES
    pc,          \* where Run is: parseFlags, logging, version, args, newRunner, start, loop, done
    status,      \* the int Run returned (NoCode before it returns)
    cause,       \* the return statement Run left through
    prefixes,    \* config.Prefixes
    parsedArgs,  \* flags.Args()
    version,     \* the -version flag
    command,     \* the command handed to NewRunner
    runner,      \* "nil", or "created" once NewRunner returned a runner
    calls,       \* the calls Run made on the runner, in order
    ErrCh,       \* runner.ErrCh: an error is offered
    DoneCh,      \* runner.DoneCh: a value is offered
    ExitCh,      \* runner.ExitCh: the exit code offered, or NoCode
    signalCh,    \* the one-slot signal channel: a signal or NoSignal
    nsignals,    \* OS signals delivered so far
    code,        \* Run's local variable code
    s,           \* Run's local variable s
    run2,        \* what a second execution of the same select could return
    stopCh,      \* cli.stopCh: "open" or "closed"
    stopped,     \* cli.stopped
    mutex,       \* cli.Mutex: its owner or NoOwner
    spc,         \* where each goroutine calling stop() is
    closes       \* close(cli.stopCh) executions

cliVars == <<stopCh, stopped, mutex, spc, closes>>
cfgVars == <<prefixes, parsedArgs, version, command, runner>>
chanVars == <<ErrCh, DoneCh, ExitCh, signalCh, nsignals>>
runVars == <<pc, status, cause, calls, code, s, run2>>
vars == <<pc, status, cause, prefixes, parsedArgs, version, command, runner,
          calls, ErrCh, DoneCh, ExitCh, signalCh, nsignals, code, s, run2,
          stopCh, stopped, mutex, spc, closes>>

NoRun == [status |-> NoCode, stop |-> FALSE]

\* NewCLI, and Run about to parse its arguments
Init ==
    /\ pc = "parseFlags"
    /\ status = NoCode
    /\ cause = "none"
    /\ prefixes = <<>>
    /\ parsedArgs = <<>>
    /\ version = FALSE
    /\ command = <<>>
    /\ runner = "nil"
    /\ calls = <<>>
    /\ ErrCh = FALSE
    /\ DoneCh = FALSE
    /\ ExitCh = NoCode
    /\ signalCh = NoSignal
    /\ nsignals = 0
    /\ code = NoCode
    /\ s = NoSignal
    /\ run2 = NoRun
    /\ stopCh = "open"
    /\ stopped = FALSE
    /\ mutex = NoOwner
    /\ spc = [p \in Stoppers |-> "idle"]
    /\ closes = 0

(* ----------------------------- CLI.Run: startup ------------------------ *)

\* handleError logs the error and returns the status it was given
handleError(st) == st

\* a return statement of Run before the event loop
ReturnEarly(st, why) ==
    /\ pc' = "done"
    /\ status' = st
    /\ cause' = why
    /\ UNCHANGED <<calls, code, s, run2>>

Goto(next) ==
    /\ pc' = next
    /\ UNCHANGED <<status, cause, calls, code, s, run2>>

\* config, parsedArgs, once, version, err := cli.parseFlags(args[1:])
ParseFlags ==
    /\ pc = "parseFlags"
    /\ \E err \in BOOLEAN, np \in 0..MaxPrefixFlags, na \in 0..MaxArgs, v \in BOOLEAN :
          IF err
             THEN /\ ReturnEarly(handleError(ExitCodeParseFlagsError), "parseFlags")
                  /\ UNCHANGED cfgVars
             ELSE /\ prefixes' = FlagPrefixes(np)
                  /\ parsedArgs' = ArgList(na)
                  /\ version' = v
                  /\ Goto("logging")
                  /\ UNCHANGED <<command, runner>>
    /\ UNCHANGED <<chanVars, cliVars>>

\* logging.Setup(...)
LoggingSetup ==
    /\ pc = "logging"
    /\ \E err \in BOOLEAN :
          IF err
             THEN ReturnEarly(handleError(ExitCodeLoggingError), "logging")
             ELSE Goto("version")
    /\ UNCHANGED <<cfgVars, chanVars, cliVars>>

\* if version { ... return ExitCodeOK }
VersionCheck ==
    /\ pc = "version"
    /\ IF version
          THEN ReturnEarly(ExitCodeOK, "version")
          ELSE Goto("args")
    /\ UNCHANGED <<cfgVars, chanVars, cliVars>>

\* the command and, without -prefix flags, the prefix from the arguments
Arguments ==
    /\ pc = "args"
    /\ IF Len(prefixes) > 0
          THEN /\ command' = parsedArgs
               /\ Goto("newRunner")
               /\ UNCHANGED <<prefixes, parsedArgs, version, runner>>
          ELSE IF Len(parsedArgs) < 2
             THEN /\ ReturnEarly(handleError(ExitCodeParseFlagsError), "args")
                  /\ UNCHANGED cfgVars
             ELSE \E err \in BOOLEAN :
                    /\ command' = Tail(parsedArgs)
                    /\ IF err
                          THEN /\ ReturnEarly(handleError(ExitCodeError), "prefix")
                               /\ UNCHANGED prefixes
                          ELSE /\ prefixes' = Append(prefixes, ParseStoreKeyPrefix(Head(parsedArgs)))
                               /\ Goto("newRunner")
                    /\ UNCHANGED <<parsedArgs, version, runner>>
    /\ UNCHANGED <<chanVars, cliVars>>

\* NewRunner as it would be if Run went on after a failed NewRunner
NewRunnerErrIgnored ==
    /\ pc = "newRunner"
    /\ \E err \in BOOLEAN :
          /\ runner' = IF err THEN runner ELSE "created"
          /\ Goto("start")
    /\ UNCHANGED <<prefixes, parsedArgs, version, command, chanVars, cliVars>>

\* runner, err := NewRunner(config, command, once)
NewRunner ==
    /\ pc = "newRunner"
    /\ \E err \in BOOLEAN :
          IF err
             THEN /\ ReturnEarly(handleError(ExitCodeRunnerError), "newRunner")
                  /\ UNCHANGED runner
             ELSE /\ runner' = "created"
                  /\ Goto("start")
    /\ UNCHANGED <<prefixes, parsedArgs, version, command, chanVars, cliVars>>

\* go runner.Start(); signalCh := make(chan os.Signal, 1); signal.Notify(...)
\* The runner now holds config and command; Run reads neither them nor
\* parsedArgs again, and the model forgets these dead locals here.
StartRunner ==
    /\ pc = "start"
    /\ pc' = "loop"
    /\ calls' = Append(calls, StartCall)
    /\ prefixes' = <<>>
    /\ parsedArgs' = <<>>
    /\ command' = <<>>
    /\ UNCHANGED <<status, cause, code, s, run2, version, runner, chanVars, cliVars>>

(* ----------------------------- CLI.Run: event loop -------------------- *)

SelectCases == {"err", "done", "exit", "signal", "stop"}

\* IsTerminating as it would be if the switch caught every signal
IsTerminatingAll(sig) == TRUE

\* case syscall.SIGINT, syscall.SIGTERM, syscall.SIGQUIT:
IsTerminating(sig) == sig \in {"SIGINT", "SIGTERM", "SIGQUIT"}

\* ChildExitStatus as it would be if a failed child were reported as ExitCodeError
ChildExitStatusFlat(c) == IF c = ExitCodeOK THEN ExitCodeOK ELSE handleError(ExitCodeError)

\* if code == ExitCodeOK { return ExitCodeOK } else { return cli.handleError(err, code) }
ChildExitStatus(c) == IF c = ExitCodeOK THEN ExitCodeOK ELSE handleError(c)

\* RunnerErrStatus as it would be if the error case returned like the done case
RunnerErrStatusOK == ExitCodeOK

\* case err := <-runner.ErrCh: return cli.handleError(err, ExitCodeRunnerError)
RunnerErrStatus == handleError(ExitCodeRunnerError)

\* SignalCalls as it would be if the runner were stopped before the signal is relayed
SignalCallsStopFirst(sig) ==
    IF IsTerminating(sig) THEN <<StopCall, SignalCall(sig)>> ELSE <<SignalCall(sig)>>

\* SignalCalls as it would be if every signal, interrupt or not, stopped the runner
SignalCallsStopAlways(sig) == <<SignalCall(sig), StopCall>>

\* the runner calls of case s := <-signalCh, in order
SignalCalls(sig) ==
    IF IsTerminating(sig) THEN <<SignalCall(sig), StopCall>> ELSE <<SignalCall(sig)>>

\* the runner calls of case code := <-runner.ExitCh
ExitCalls == <<StopCall>>

\* the runner calls of case <-cli.stopCh
StopChCalls == <<>>

\* a case of the select can proceed
Ready(c) ==
    CASE c = "err" -> ErrCh
      [] c = "done" -> DoneCh
      [] c = "exit" -> ExitCh # NoCode
      [] c = "signal" -> signalCh # NoSignal
      [] c = "stop" -> stopCh = "closed"

\* a ready case that ends in a return statement
Returns(c) == c # "signal" \/ IsTerminating(signalCh)

\* the status a ready, returning case returns and whether it calls runner.Stop()
Outcome(c) ==
    CASE c = "err" -> [status |-> RunnerErrStatus, stop |-> FALSE]
      [] c = "done" -> [status |-> ExitCodeOK, stop |-> FALSE]
      [] c = "exit" -> [status |-> ChildExitStatus(ExitCh), stop |-> StopCall \in Range(ExitCalls)]
      [] c = "signal" -> [status |-> ExitCodeInterrupt, stop |-> StopCall \in Range(SignalCalls(signalCh))]
      [] c = "stop" -> [status |-> ExitCodeOK, stop |-> StopCall \in Range(StopChCalls)]

\* select picks any ready case: what another execution could return here
Select2 == {Outcome(c) : c \in {r \in SelectCases : Ready(r) /\ Returns(r)}}

\* a return statement of the event loop
Return(st, why) ==
    /\ pc' = "done"
    /\ status' = st
    /\ cause' = why
    /\ run2' \in Select2

\* case err := <-runner.ErrCh
RecvErr ==
    /\ pc = "loop"
    /\ Ready("err")
    /\ ErrCh' = FALSE
    /\ Return(RunnerErrStatus, "err")
    /\ UNCHANGED <<calls, code, s, DoneCh, ExitCh, signalCh, nsignals, cfgVars, cliVars>>

\* case <-runner.DoneCh
RecvDone ==
    /\ pc = "loop"
    /\ Ready("done")
    /\ DoneCh' = FALSE
    /\ Return(ExitCodeOK, "done")
    /\ UNCHANGED <<calls, code, s, ErrCh, ExitCh, signalCh, nsignals, cfgVars, cliVars>>

\* case code := <-runner.ExitCh
RecvExit ==
    /\ pc = "loop"
    /\ Ready("exit")
    /\ code' = ExitCh
    /\ ExitCh' = NoCode
    /\ calls' = calls \o ExitCalls
    /\ Return(ChildExitStatus(ExitCh), "exit")
    /\ UNCHANGED <<s, ErrCh, DoneCh, signalCh, nsignals, cfgVars, cliVars>>

\* RecvSignal as it would be if the interrupt case fell through to the loop
RecvSignalNoReturn ==
    /\ pc = "loop"
    /\ Ready("signal")
    /\ s' = signalCh
    /\ signalCh' = NoSignal
    /\ calls' = calls \o SignalCalls(signalCh)
    /\ UNCHANGED <<pc, status, cause, run2>>
    /\ UNCHANGED <<code, ErrCh, DoneCh, ExitCh, nsignals, cfgVars, cliVars>>

\* case s := <-signalCh
RecvSignal ==
    /\ pc = "loop"
    /\ Ready("signal")
    /\ s' = signalCh
    /\ signalCh' = NoSignal
    /\ calls' = calls \o SignalCalls(signalCh)
    /\ IF IsTerminating(signalCh)
          THEN Return(ExitCodeInterrupt, "signal")
          ELSE UNCHANGED <<pc, status, cause, run2>>
    /\ UNCHANGED <<code, ErrCh, DoneCh, ExitCh, nsignals, cfgVars, cliVars>>

\* case <-cli.stopCh
RecvStop ==
    /\ pc = "loop"
    /\ Ready("stop")
    /\ calls' = calls \o StopChCalls
    /\ Return(ExitCodeOK, "stop")
    /\ UNCHANGED <<code, s, chanVars, cfgVars, cliVars>>

(* ----------------------------- the runner and the OS ------------------- *)

\* the started runner offers an error on ErrCh
RunnerError ==
    /\ pc = "loop"
    /\ ~ErrCh
    /\ ErrCh' = TRUE
    /\ UNCHANGED <<DoneCh, ExitCh, signalCh, nsignals, runVars, cfgVars, cliVars>>

\* the started runner offers its completion on DoneCh
RunnerDone ==
    /\ pc = "loop"
    /\ ~DoneCh
    /\ DoneCh' = TRUE
    /\ UNCHANGED <<ErrCh, ExitCh, signalCh, nsignals, runVars, cfgVars, cliVars>>

\* the child exits and the runner offers its code on ExitCh
RunnerExit ==
    /\ pc = "loop"
    /\ ExitCh = NoCode
    /\ \E c \in ExitCodes : ExitCh' = c
    /\ UNCHANGED <<ErrCh, DoneCh, signalCh, nsignals, runVars, cfgVars, cliVars>>

\* signal.Notify never blocks: a signal that finds the one slot of signalCh
\* taken is dropped
OSSignal ==
    /\ pc = "loop"
    /\ nsignals < MaxSignals
    /\ nsignals' = nsignals + 1
    /\ \E sig \in Signals :
          signalCh' = IF signalCh = NoSignal THEN sig ELSE signalCh
    /\ UNCHANGED <<ErrCh, DoneCh, ExitCh, runVars, cfgVars, cliVars>>

(* ----------------------------- CLI.stop -------------------------------- *)

\* CanLock as it would be if stop() took no lock
CanLockAlways(p) == TRUE

\* cli.Lock() returns only when no goroutine holds the mutex
CanLock(p) == mutex = NoOwner

StopStep(p, from, to) ==
    /\ spc[p] = from
    /\ spc' = [spc EXCEPT ![p] = to]

\* a goroutine calls cli.stop() and its cli.Lock() returns; defer cli.Unlock()
StopLock(p) ==
    /\ CanLock(p)
    /\ StopStep(p, "idle", "check")
    /\ mutex' = p
    /\ UNCHANGED <<stopCh, stopped, closes, runVars, cfgVars, chanVars>>

\* if cli.stopped { return }
StopCheck(p) ==
    /\ spc[p] = "check"
    /\ spc' = [spc EXCEPT ![p] = IF stopped THEN "unlock" ELSE "close"]
    /\ UNCHANGED <<stopCh, stopped, mutex, closes, runVars, cfgVars, chanVars>>

\* close(cli.stopCh)
StopClose(p) ==
    /\ StopStep(p, "close", "mark")
    /\ stopCh' = "closed"
    /\ closes' = closes + 1
    /\ UNCHANGED <<stopped, mutex, runVars, cfgVars, chanVars>>

\* cli.stopped = true
StopMark(p) ==
    /\ StopStep(p, "mark", "unlock")
    /\ stopped' = TRUE
    /\ UNCHANGED <<stopCh, mutex, closes, runVars, cfgVars, chanVars>>

\* the deferred cli.Unlock()
StopUnlock(p) ==
    /\ StopStep(p, "unlock", "idle")
    /\ mutex' = NoOwner
    /\ UNCHANGED <<stopCh, stopped, closes, runVars, cfgVars, chanVars>>

\* the steps of a stop() call that holds the mutex
StopRun(p) ==
    StopCheck(p) \/ StopClose(p) \/ StopMark(p) \/ StopUnlock(p)

(* ----------------------------- specification --------------------------- *)

Next ==
    \/ ParseFlags
    \/ LoggingSetup
    \/ VersionCheck
    \/ Arguments
    \/ NewRunner
    \/ StartRunner
    \/ RecvErr
    \/ RecvDone
    \/ RecvExit
    \/ RecvSignal
    \/ RecvStop
    \/ RunnerError
    \/ RunnerDone
    \/ RunnerExit
    \/ OSSignal
    \/ \E p \in Stoppers : StopLock(p)
    \/ \E p \in Stoppers : StopRun(p)

Spec == Init /\ [][Next]_vars

\* Go's select picks among the ready cases at random, so a case that stays
\* ready is eventually taken; a goroutine inside stop() keeps running
FairSpec ==
    /\ Spec
    /\ WF_vars(RecvErr)
    /\ WF_vars(RecvDone)
    /\ WF_vars(RecvExit)
    /\ WF_vars(RecvSignal)
    /\ WF_vars(RecvStop)
    /\ \A p \in Stoppers : WF_vars(StopRun(p))

(* ----------------------------- properties ------------------------------ *)

\* SIGINT, SIGTERM and SIGQUIT, as the claims name them
Interrupts == {"SIGINT", "SIGTERM", "SIGQUIT"}

\* Run has received from signalCh in this step
SignalReceived == signalCh # NoSignal /\ signalCh' = NoSignal

StartCalls == {i \in 1..Len(calls) : calls[i] = StartCall}

\* C1: when Run consumes a child-exit event it calls runner.Stop() and then
\* returns ExitCodeOK for code 0 and exactly the child's code otherwise.
ChildExitStopsThenReturnsCode ==
    (pc = "done" /\ cause = "exit") =>
        /\ Len(calls) > 0
        /\ calls[Len(calls)] = StopCall
        /\ code = 0 => status = ExitCodeOK
        /\ code # 0 => status = code

ChildExitWitness ==
    pc = "done" /\ cause = "exit" /\ code = 2 /\ status = 2

\* C2: the status Run returns for a non-zero child exit is never a status
\* Run returns for an internal fault.
ChildExitDistinctFromFaults ==
    (pc = "done" /\ cause = "exit" /\ code # 0) =>
        status \notin {ExitCodeError, ExitCodeInterrupt, ExitCodeLoggingError,
                       ExitCodeParseFlagsError, ExitCodeRunnerError}

\* C3: on SIGINT, SIGTERM or SIGQUIT Run forwards the signal with
\* runner.Signal(s), then calls runner.Stop(), then returns ExitCodeInterrupt.
InterruptForwardStopReturn ==
    [][(SignalReceived /\ signalCh \in Interrupts) =>
          /\ pc = "loop"
          /\ calls' = calls \o <<SignalCall(signalCh), StopCall>>
          /\ pc' = "done"
          /\ status' = ExitCodeInterrupt]_vars

InterruptWitness ==
    /\ pc = "done"
    /\ cause = "signal"
    /\ s = "SIGTERM"
    /\ calls = <<StartCall, SignalCall("SIGTERM"), StopCall>>

\* C4: any other signal is relayed with runner.Signal(s) exactly once and
\* changes nothing else: no runner.Stop(), no return, Run stays in its loop.
OtherSignalOnlyRelayed ==
    [][(SignalReceived /\ signalCh \notin Interrupts) =>
          /\ pc = "loop"
          /\ pc' = "loop"
          /\ calls' = Append(calls, SignalCall(signalCh))
          /\ UNCHANGED <<status, cause, code, run2, ErrCh, DoneCh, ExitCh,
                         nsignals, cfgVars, cliVars>>]_vars

OtherSignalWitness ==
    /\ pc = "loop"
    /\ s = "SIGHUP"
    /\ signalCh = NoSignal
    /\ calls = <<StartCall, SignalCall("SIGHUP")>>

\* C5: every startup failure (and the version flag) returns its status
\* without a call to runner.Start(); runner.Start() is called at most once
\* and only after NewRunner succeeded.
StartupReturnsBeforeStart ==
    /\ cause = "parseFlags" => status = ExitCodeParseFlagsError /\ calls = <<>>
    /\ cause = "logging" => status = ExitCodeLoggingError /\ calls = <<>>
    /\ cause = "version" => status = ExitCodeOK /\ calls = <<>>
    /\ cause = "args" => status = ExitCodeParseFlagsError /\ calls = <<>>
    /\ cause = "prefix" => status = ExitCodeError /\ calls = <<>>
    /\ cause = "newRunner" => status = ExitCodeRunnerError /\ calls = <<>>
    /\ Cardinality(StartCalls) <= 1
    /\ StartCalls # {} => runner = "created"

StartupFailureWitness ==
    pc = "done" /\ cause = "newRunner" /\ runner = "nil" /\ calls = <<>>

\* C6: a consumed runner error returns ExitCodeRunnerError, and Run returns
\* ExitCodeOK only for the version flag, DoneCh, a child exit with code 0 or
\* the closed stop channel.
OKOnlyWithoutFault ==
    /\ (pc = "done" /\ cause = "err") => status = ExitCodeRunnerError
    /\ (pc = "done" /\ status = ExitCodeOK) =>
          \/ cause \in {"version", "done", "stop"}
          \/ cause = "exit" /\ code = 0

RunnerErrorWitness ==
    pc = "done" /\ cause = "err" /\ status = ExitCodeRunnerError

\* C7: however many goroutines call stop(), stopCh is closed exactly once,
\* and a call made after cli.stopped is set changes nothing of the CLI.
StopIdempotent ==
    /\ [](/\ closes <= 1
          /\ stopCh = "closed" <=> closes = 1
          /\ stopped => stopCh = "closed")
    /\ [][stopped => (stopped' /\ stopCh' = stopCh /\ closes' = closes)]_vars

SecondStopWitness ==
    \E p \in Stoppers : spc[p] = "check" /\ stopped /\ closes = 1

\* C8: every return of Run caused by the closed stop channel is preceded
\* by a call to runner.Stop().
StopRequestStopsChild ==
    (pc = "done" /\ cause = "stop") => StopCall \in Range(calls)

ExitDecisionDeterministic ==
    (pc = "done" /\ run2 # NoRun) =>
        run2 = [status |-> status, stop |-> StopCall \in Range(calls)]

\* C11: Run hands NewRunner, and so constructs a Runner with, at least one
\* prefix and a non-empty command: with -prefix flags the command is every
\* positional argument, with none the first positional argument is the
\* prefix and the rest the command, and fewer than two positional arguments
\* return ExitCodeParseFlagsError with no Runner constructed.
RunnerNeedsPrefixAndCommand ==
    /\ pc \in {"newRunner", "start"} =>
          /\ Len(prefixes) >= 1
          /\ Len(command) >= 1
          /\ IF prefixes[1].flag # 0
                THEN command = parsedArgs
                ELSE /\ prefixes = <<ParseStoreKeyPrefix(parsedArgs[1])>>
                     /\ command = Tail(parsedArgs)
    /\ cause = "args" =>
          /\ Len(parsedArgs) < 2
          /\ status = ExitCodeParseFlagsError
          /\ runner = "nil"

\* C12: ExitCodeOK is 0, the first error code ExitCodeError is 10, every
\* following error code is one greater than the one before it, and no two
\* of the nine constants are equal.  The constants never change: the
\* statement is about every state Run is in, wherever it stands.
ExitCodesStartAtTen ==
    pc \in {"parseFlags", "logging", "version", "args", "newRunner",
            "start", "loop", "done"} =>
        /\ ExitCodeOK = 0
        /\ ExitCodeError = 10
        /\ ExitCodeInterrupt = ExitCodeError + 1
        /\ ExitCodeLoggingError = ExitCodeInterrupt + 1
        /\ ExitCodeParseFlagsError = ExitCodeLoggingError + 1
        /\ ExitCodeParseConfigError = ExitCodeParseFlagsError + 1
        /\ ExitCodeRunnerError = ExitCodeParseConfigError + 1
        /\ ExitCodeConsulAPIError = ExitCodeRunnerError + 1
        /\ ExitCodeWatcherError = ExitCodeConsulAPIError + 1
        /\ Cardinality({ExitCodeOK, ExitCodeError, ExitCodeInterrupt,
                        ExitCodeLoggingError, ExitCodeParseFlagsError,
                        ExitCodeParseConfigError, ExitCodeRunnerError,
                        ExitCodeConsulAPIError, ExitCodeWatcherError}) = 9

\* C13: within one Run runner.Stop() is called at most once and is the last
\* call made on the runner, so no runner.Signal() follows it; once it is
\* called Run has returned and takes nothing more from any channel.
StopIsLastRunnerCall ==
    /\ [](/\ Cardinality({i \in 1..Len(calls) : calls[i] = StopCall}) <= 1
          /\ \A i \in 1..Len(calls) :
                calls[i] = StopCall => (i = Len(calls) /\ pc = "done"))
    /\ [][(StopCall \in Range(calls)) =>
             (/\ UNCHANGED <<pc, status, calls, code, s>>
              /\ ErrCh => ErrCh'
              /\ DoneCh => DoneCh'
              /\ ExitCh # NoCode => ExitCh' = ExitCh
              /\ signalCh # NoSignal => signalCh' = signalCh)]_vars

StopAfterRelayWitness ==
    /\ pc = "done"
    /\ calls = <<StartCall, SignalCall("SIGHUP"), SignalCall("SIGINT"), StopCall>>
    /\ \E p \in Stoppers : spc[p] # "idle"

====
